---- MODULE Spec2Model ----
(***************************************************************************)
(* A model of the RPC message lifecycle of go-netconf: NewRPCMessage,      *)
(* RPCMessage.Exec (marshal, Transport.Send, Transport.Receive) and the    *)
(* reply decoder newRPCReply with its etree document operations.           *)
(*                                                                         *)
(* Bytes on the wire are modelled as the sequence of XML tokens the        *)
(* decoder of encoding/xml hands to etree; a token the lexer cannot read   *)
(* is the token "bad".  A pointer that may be nil is a sequence of length  *)
(* 0 (nil) or 1.                                                           *)
(***************************************************************************)
EXTENDS Integers, Sequences, FiniteSets, TLC

VARIABLES msg, session, pc, request, rawXML, ret, trace

\* a credential and what building its configuration ended in
VARIABLES cred, config

\* goroutines running Exec on one session: the messages created, each
\* goroutine's invocation, and the session's transport
VARIABLES heap, threads, wire

execVars == <<msg, session, pc, request, rawXML, ret, trace>>

credVars == <<cred, config>>

concVars == <<heap, threads, wire>>

vars == <<execVars, credVars, concVars>>

-----------------------------------------------------------------------------
(* Bounds of the model *)

\* the largest number of child nodes of the received top-level element
MaxKids == 3

-----------------------------------------------------------------------------
(* nil and pointers *)

Nil == <<>>

Some(x) == <<x>>

-----------------------------------------------------------------------------
(* XML tokens (encoding/xml RawToken) and etree nodes *)

StartTok(tag, attr) == [k |-> "start", tag |-> tag, val |-> attr]

EndTok(tag) == [k |-> "end", tag |-> tag, val |-> ""]

TextTok(data) == [k |-> "text", tag |-> "", val |-> data]

ProcInstTok == [k |-> "procinst", tag |-> "xml", val |-> ""]

\* markup the lexer rejects (an unterminated tag, say)
BadTok == [k |-> "bad", tag |-> "", val |-> ""]

\* etree.Element: tag, the message-id attribute (val) and the child tokens
NewElement(tag, attr) ==
    [kind |-> "Element", tag |-> tag, val |-> attr, child |-> <<>>]

\* etree.CharData
NewCharData(data) ==
    [kind |-> "CharData", tag |-> "", val |-> data, child |-> <<>>]

\* etree.ProcInst
NewProcInst(target) ==
    [kind |-> "ProcInst", tag |-> target, val |-> "", child |-> <<>>]

\* etree.NewDocument: a Document embeds an Element without a tag
NewDocument == [kind |-> "Element", tag |-> "", val |-> "", child |-> <<>>]

IsElement(n) == n.kind = "Element"

AddChild(e, n) == [e EXCEPT !.child = Append(@, n)]

-----------------------------------------------------------------------------
(* errors *)

\* a Go error value: its kind and, for an *RPCError, the entry it points to
AsError(kind, detail) == [kind |-> kind, detail |-> detail]

ErrSend == AsError("send", Nil)

ErrReceive == AsError("receive", Nil)

ErrSyntax == AsError("xml-syntax", Nil)

ErrXML == AsError("etree-invalid-xml", Nil)

ErrNoRoot == AsError("cant-find-root", Nil)

-----------------------------------------------------------------------------
(* etree: Document.ReadFromBytes *)

ReadResult(err, doc) == [err |-> err, doc |-> doc]

\* Element.readFrom: the token loop over a stack of open elements, the
\* document at its bottom.  A finished element is attached to the element
\* below it, which for properly nested input is the order in which etree
\* attaches it on creation.
RECURSIVE readFrom(_, _)
readFrom(toks, stack) ==
    IF toks = <<>>
    THEN IF Len(stack) # 1
         THEN ReadResult(Some(ErrXML), NewDocument)
         ELSE ReadResult(Nil, stack[1])
    ELSE LET t == Head(toks)
             top == stack[Len(stack)]
             below == SubSeq(stack, 1, Len(stack) - 1)
         IN CASE t.k = "bad" -> ReadResult(Some(ErrSyntax), NewDocument)
              [] t.k = "start" ->
                    readFrom(Tail(toks), Append(stack, NewElement(t.tag, t.val)))
              [] t.k = "end" ->
                    IF top.tag # t.tag
                    THEN ReadResult(Some(ErrXML), NewDocument)
                    ELSE readFrom(Tail(toks),
                                  Append(SubSeq(below, 1, Len(below) - 1),
                                         AddChild(below[Len(below)], top)))
              [] t.k = "text" ->
                    readFrom(Tail(toks), Append(below, AddChild(top, NewCharData(t.val))))
              [] OTHER ->
                    readFrom(Tail(toks), Append(below, AddChild(top, NewProcInst(t.tag))))

ReadFromBytes(bytes) == readFrom(bytes, <<NewDocument>>)

-----------------------------------------------------------------------------
(* etree: child access, paths, Text, SetRoot *)

\* Element.ChildElements
ChildElements(e) == SelectSeq(e.child, IsElement)

\* path segment "tag": the child elements of e with that tag
SelectChildrenByTag(e, tag) ==
    SelectSeq(e.child, LAMBDA n : IsElement(n) /\ n.tag = tag)

\* path segment "//": e and its descendant elements, breadth first
RECURSIVE SelectDescendants(_)
SelectDescendants(queue) ==
    IF queue = <<>>
    THEN <<>>
    ELSE <<Head(queue)>> \o SelectDescendants(Tail(queue) \o ChildElements(Head(queue)))

RECURSIVE ChildrenOfAll(_, _)
ChildrenOfAll(candidates, tag) ==
    IF candidates = <<>>
    THEN <<>>
    ELSE SelectChildrenByTag(Head(candidates), tag) \o ChildrenOfAll(Tail(candidates), tag)

\* FindElements with the path "tag" in place of "//tag"
FindElementsChildren(doc, tag) == SelectChildrenByTag(doc, tag)

\* Document.FindElements("//tag"): for each element of the document, taken
\* breadth first from the document itself, its children with that tag
FindElementsAnywhere(doc, tag) == ChildrenOfAll(SelectDescendants(<<doc>>), tag)

\* Element.FindElement("tag"): the first child element with that tag, or nil
FindElement(e, tag) ==
    LET found == SelectChildrenByTag(e, tag)
    IN IF found = <<>> THEN Nil ELSE Some(found[1])

\* the position in e.child of the first element, 0 when there is none
FirstElement(e) ==
    LET hits == {i \in 1..Len(e.child) : IsElement(e.child[i])}
    IN IF hits = {} THEN 0 ELSE CHOOSE i \in hits : \A j \in hits : i <= j

\* the position in e.child of the first element with that tag, 0 when
\* there is none
FirstElementByTag(e, tag) ==
    LET hits == {i \in 1..Len(e.child) : IsElement(e.child[i]) /\ e.child[i].tag = tag}
    IN IF hits = {} THEN 0 ELSE CHOOSE i \in hits : \A j \in hits : i <= j

\* Element.Text: the character data at the start of the element
RECURSIVE LeadingText(_)
LeadingText(children) ==
    IF children = <<>> \/ Head(children).kind # "CharData"
    THEN ""
    ELSE Head(children).val \o LeadingText(Tail(children))

Text(e) == LeadingText(e.child)

RemoveAt(seq, i) == SubSeq(seq, 1, i - 1) \o SubSeq(seq, i + 1, Len(seq))

\* SetRoot adding e to the document without replacing its root
SetRootAppends(doc, w, r) ==
    AddChild([doc EXCEPT !.child[w].child = RemoveAt(@, r)], doc.child[w].child[r])

\* SetRoot handing the old root's message-id attribute to the new root
SetRootKeepsAttr(doc, w, r) ==
    LET e == [doc.child[w].child[r] EXCEPT !.val = doc.child[w].val]
        unbound == [doc EXCEPT !.child[w].child = RemoveAt(@, r)]
        i == FirstElement(unbound)
    IN IF i = 0
       THEN AddChild(unbound, e)
       ELSE [unbound EXCEPT !.child[i] = e]

\* Document.SetRoot(e), e being child r of the document's child w: e is
\* removed from its parent, then replaces the first element of the document
\* (appended when the document has none)
SetRoot(doc, w, r) ==
    LET e == doc.child[w].child[r]
        unbound == [doc EXCEPT !.child[w].child = RemoveAt(@, r)]
        i == FirstElement(unbound)
    IN IF i = 0
       THEN AddChild(unbound, e)
       ELSE [unbound EXCEPT !.child[i] = e]

\* Document.Root: the first element of the document, or nil
Root(doc) ==
    LET i == FirstElement(doc)
    IN IF i = 0 THEN Nil ELSE Some(doc.child[i])

-----------------------------------------------------------------------------
(* newRPCReply *)

RPCError(type, tag, severity, path, message) ==
    [Type |-> type, Tag |-> tag, Severity |-> severity, Path |-> path,
     Message |-> message]

\* RPCReply with the MessageID field left at its zero value
RPCReplyWithoutID(errors, data, ok, messageID) ==
    [Errors |-> errors, Data |-> data, Ok |-> ok, MessageID |-> ""]

RPCReply(errors, data, ok, messageID) ==
    [Errors |-> errors, Data |-> data, Ok |-> ok, MessageID |-> messageID]

\* what a call ends in: a panic, or the returned pair (reply, err)
Returned(reply, err) == [panic |-> "", reply |-> reply, err |-> err]

Panicked(why) == [panic |-> why, reply |-> Nil, err |-> Nil]

\* safeText giving a placeholder for a missing element
safeTextPlaceholder(el) == IF el = Nil THEN "(none)" ELSE Text(el[1])

safeText(el) == IF el = Nil THEN "" ELSE Text(el[1])

\* the body of the loop over FindElements("//rpc-error")
DecodeError(rpcErr) ==
    RPCError(safeText(FindElement(rpcErr, "error-type")),
             safeText(FindElement(rpcErr, "error-tag")),
             safeText(FindElement(rpcErr, "error-severity")),
             safeText(FindElement(rpcErr, "error-path")),
             safeText(FindElement(rpcErr, "error-message")))

DecodeErrors(data) ==
    LET found == FindElementsAnywhere(data, "rpc-error")
    IN [i \in 1..Len(found) |-> DecodeError(found[i])]

\* Classify with the strictness flag not consulted
ClassifySeverityOnly(errors, ErrOnWarning) ==
    LET hits == {i \in 1..Len(errors) : errors[i].Severity = "error"}
    IN IF hits = {}
       THEN Nil
       ELSE Some(errors[CHOOSE i \in hits : \A j \in hits : i <= j])

\* the loop over reply.Errors: the first entry that fails the call, or nil
Classify(errors, ErrOnWarning) ==
    LET hits == {i \in 1..Len(errors) : errors[i].Severity = "error" \/ ErrOnWarning}
    IN IF hits = {}
       THEN Nil
       ELSE Some(errors[CHOOSE i \in hits : \A j \in hits : i <= j])

\* A nil result of FindElement("rpc-reply") and an empty ChildElements()
\* slice end the call in a run-time panic before root is compared with nil;
\* an element of ChildElements() is never nil.
newRPCReply(bytes, ErrOnWarning, messageID) ==
    LET parsed == ReadFromBytes(bytes)
        doc == parsed.doc
        ok == FindElementsAnywhere(doc, "ok") # <<>>
        w == FirstElementByTag(doc, "rpc-reply")
    IN IF parsed.err # Nil
       THEN Returned(Nil, parsed.err)
       ELSE IF w = 0
       THEN Panicked("nil pointer dereference")
       ELSE IF ChildElements(doc.child[w]) = <<>>
       THEN Panicked("index out of range")
       ELSE LET root == Some(ChildElements(doc.child[w])[1])
                data == SetRoot(doc, w, FirstElement(doc.child[w]))
                errors == DecodeErrors(data)
                reply == RPCReply(errors, data, ok, messageID)
                failing == Classify(errors, ErrOnWarning)
            IN IF root = Nil
               THEN Returned(Nil, Some(ErrNoRoot))
               ELSE IF failing # Nil
               THEN Returned(Some(reply), Some(AsError("RPCError", failing)))
               ELSE Returned(Some(reply), Nil)

-----------------------------------------------------------------------------
(* RPCMethod, RPCMessage and the request envelope *)

\* RawMethod.MarshalMethod: string(r)
MarshalMethod(r) == r

MethodLock(target) == "<lock><target><" \o target \o "/></target></lock>"

MethodUnlock(target) == "<unlock><target><" \o target \o "/></target></unlock>"

MethodGetConfig(source) ==
    "<get-config><source><" \o source \o "/></source></get-config>"

\* the buffer filled in the opposite order
RECURSIVE WriteMethodsReversed(_)
WriteMethodsReversed(methods) ==
    IF methods = <<>>
    THEN ""
    ELSE WriteMethodsReversed(Tail(methods)) \o MarshalMethod(Head(methods))

\* the buffer filled by the loop over m.Methods
RECURSIVE WriteMethods(_)
WriteMethods(methods) ==
    IF methods = <<>>
    THEN ""
    ELSE MarshalMethod(Head(methods)) \o WriteMethods(Tail(methods))

\* RPCMessage.MarshalXML: the rpc element with its two attributes and the
\* fragments as inner XML
MarshalXML(m) ==
    [name |-> "rpc",
     messageID |-> m.MessageID,
     xmlns |-> "urn:ietf:params:xml:ns:netconf:base:1.0",
     innerxml |-> WriteMethods(m.Methods)]

xmlHeader == "<?xml version=\"1.0\" encoding=\"UTF-8\"?>\n"

\* the bytes Exec hands to Transport.Send
Request(m) == [header |-> xmlHeader, rpc |-> MarshalXML(m)]

\* the values msgID() may return
MsgIDs == {"6ba7b810-9dad-41d1-80b4-00c04fd430c8", "6ba7b811-9dad-41d1-80b4-00c04fd430c8"}

\* the method lists callers pass to NewRPCMessage
MethodLists ==
    {<<MethodGetConfig("running")>>,
     <<MethodLock("candidate"), MethodUnlock("candidate")>>}

-----------------------------------------------------------------------------
(* what Transport.Receive may hand back *)

El(tag, attr, inner) == <<StartTok(tag, attr)>> \o inner \o <<EndTok(tag)>>

Leaf(tag, data) == El(tag, "", <<TextTok(data)>>)

RpcErrorEl(severity, message, more) ==
    El("rpc-error", "",
       Leaf("error-severity", severity) \o Leaf("error-message", message) \o more)

\* the child nodes a received top-level element is made of
Kids ==
    {El("ok", "", <<>>),
     El("data", "", Leaf("x", "1")),
     El("data", "", El("ok", "", <<>>)),
     El("data", "", El("a", "", RpcErrorEl("error", "deep", <<>>))
                    \o RpcErrorEl("warning", "shallow", <<>>)),
     RpcErrorEl("error", "locked", <<>>),
     RpcErrorEl("warning", "slow", <<>>),
     El("rpc-error", "", Leaf("error-message", "unrated")),
     RpcErrorEl("error", "info", El("error-info", "", El("ok", "", <<>>))),
     <<TextTok(" ")>>}

RECURSIVE Flatten(_)
Flatten(parts) == IF parts = <<>> THEN <<>> ELSE Head(parts) \o Flatten(Tail(parts))

KidLists == UNION {[1..n -> Kids] : n \in 0..MaxKids}

\* the message-id attribute a device echoes
EchoedID == "6ba7b810-9dad-41d1-80b4-00c04fd430c8"

\* one rpc-reply document for every list of children
Replies == {El("rpc-reply", EchoedID, Flatten(kids)) : kids \in KidLists}

\* the five sub-elements of rpc-error that the decoder reads, in the order
\* of the fields of RPCError
SubFields == <<"error-type", "error-tag", "error-severity", "error-path", "error-message">>

Severities == {"error", "warning"}

\* the text a device puts in sub-element i
SubFieldText(i, severity) ==
    IF i = 3 THEN severity ELSE <<"protocol", "lock-denied", "", "/rpc/lock", "denied">>[i]

\* an rpc-error element with the sub-elements whose index is in present
PartialError(present, severity) ==
    El("rpc-error", "",
       Flatten([i \in 1..5 |-> IF i \in present
                               THEN Leaf(SubFields[i], SubFieldText(i, severity))
                               ELSE <<>>]))

\* one rpc-reply for every subset of the sub-elements
PartialErrorReplies ==
    {El("rpc-reply", EchoedID, PartialError(present, severity)) :
        present \in SUBSET (1..5), severity \in Severities}

\* rpc-reply documents with either message-id, with and without the XML
\* declaration in front; documents with another top-level element; the
\* empty input; input the lexer rejects
OtherInputs ==
    {El("rpc-reply", id, k) : id \in MsgIDs, k \in Kids}
    \cup {<<ProcInstTok>> \o El("rpc-reply", id, k) : id \in MsgIDs, k \in Kids}
    \cup {<<ProcInstTok>> \o El("rpc-reply", id, <<>>) : id \in MsgIDs}
    \cup {El("hello", "", El("ok", "", <<>>)),
          El("notification", "", RpcErrorEl("error", "event", <<>>)),
          <<>>,
          <<BadTok>>,
          <<StartTok("rpc-reply", "")>> \o El("ok", "", <<>>) \o <<BadTok>>}
    \cup PartialErrorReplies

RawInputs == Replies \cup OtherInputs

-----------------------------------------------------------------------------
(* The state machine *)

NoReturn == [reply |-> Nil, err |-> Nil]

Init ==
    /\ msg = Nil
    /\ session \in [ErrOnWarning : BOOLEAN]
    /\ pc = "idle"
    /\ request = Nil
    /\ rawXML = Nil
    /\ ret = NoReturn
    /\ trace = <<>>
    /\ cred = Nil /\ config = Nil
    /\ heap = <<>> /\ threads = <<>> /\ wire = <<>>

\* NewRPCMessage(methods): a message with a fresh identifier
NewRPCMessage(methods) ==
    /\ pc \in {"idle", "done"}
    /\ \E id \in MsgIDs : msg' = Some([MessageID |-> id, Methods |-> methods])
    /\ pc' = "idle"
    /\ request' = Nil
    /\ rawXML' = Nil
    /\ ret' = NoReturn
    /\ trace' = <<>>
    /\ UNCHANGED session

\* Exec going on to Receive after a failed Send
ExecSendFailsIgnored ==
    /\ pc \in {"idle", "done"}
    /\ msg # Nil
    /\ request' = Some(Request(msg[1]))
    /\ trace' = <<[op |-> "Send", ok |-> FALSE]>>
    /\ rawXML' = Nil
    /\ ret' = NoReturn
    /\ pc' = "sent"
    /\ UNCHANGED <<msg, session>>

\* Exec up to Transport.Send returning an error: return nil, err
ExecSendFails ==
    /\ pc \in {"idle", "done"}
    /\ msg # Nil
    /\ request' = Some(Request(msg[1]))
    /\ trace' = <<[op |-> "Send", ok |-> FALSE]>>
    /\ rawXML' = Nil
    /\ ret' = [reply |-> Nil, err |-> Some(ErrSend)]
    /\ pc' = "done"
    /\ UNCHANGED <<msg, session>>

\* Exec emptying the message's method list while it marshals it
ExecSendConsumesMethods ==
    /\ pc \in {"idle", "done"}
    /\ msg # Nil
    /\ request' = Some(Request(msg[1]))
    /\ trace' = <<[op |-> "Send", ok |-> TRUE]>>
    /\ rawXML' = Nil
    /\ ret' = NoReturn
    /\ pc' = "sent"
    /\ msg' = Some([msg[1] EXCEPT !.Methods = <<>>])
    /\ UNCHANGED session

\* Exec up to Transport.Send returning nil: Exec goes on to Receive.
\* xml.Marshal encodes the two strings and the inner XML that MarshalXML
\* hands it; its error return is not taken.
ExecSend ==
    /\ pc \in {"idle", "done"}
    /\ msg # Nil
    /\ request' = Some(Request(msg[1]))
    /\ trace' = <<[op |-> "Send", ok |-> TRUE]>>
    /\ rawXML' = Nil
    /\ ret' = NoReturn
    /\ pc' = "sent"
    /\ UNCHANGED <<msg, session>>

\* Exec returning nil, nil when Receive fails
ExecReceiveFailsSilently ==
    /\ pc = "sent"
    /\ trace' = Append(trace, [op |-> "Receive", ok |-> FALSE])
    /\ ret' = NoReturn
    /\ pc' = "done"
    /\ UNCHANGED <<msg, session, request, rawXML>>

\* Transport.Receive returns an error: return nil, err
ExecReceiveFails ==
    /\ pc = "sent"
    /\ trace' = Append(trace, [op |-> "Receive", ok |-> FALSE])
    /\ ret' = [reply |-> Nil, err |-> Some(ErrReceive)]
    /\ pc' = "done"
    /\ UNCHANGED <<msg, session, request, rawXML>>

\* what Exec returns for the pair newRPCReply returned
ExecReturn(out) ==
    IF out.err # Nil
    THEN [reply |-> Nil, err |-> out.err]
    ELSE [reply |-> out.reply, err |-> Nil]

\* Transport.Receive returns bytes: Exec decodes them and returns, unless
\* the decoder panics
ExecReceive ==
    /\ pc = "sent"
    /\ \E bytes \in RawInputs :
          LET out == newRPCReply(bytes, session.ErrOnWarning, msg[1].MessageID)
          IN /\ rawXML' = Some(bytes)
             /\ IF out.panic # ""
                THEN pc' = "panic" /\ ret' = NoReturn
                ELSE pc' = "done" /\ ret' = ExecReturn(out)
    /\ trace' = Append(trace, [op |-> "Receive", ok |-> TRUE])
    /\ UNCHANGED <<msg, session, request>>

\* a step of NewRPCMessage and Exec leaves the other variables alone
ExecOnly == UNCHANGED <<credVars, concVars>>

Next ==
    \/ ExecOnly /\ \E methods \in MethodLists : NewRPCMessage(methods)
    \/ ExecOnly /\ ExecSendFails
    \/ ExecOnly /\ ExecSend
    \/ ExecOnly /\ ExecReceiveFails
    \/ ExecOnly /\ ExecReceive

Spec == Init /\ [][Next]_vars

-----------------------------------------------------------------------------
(* uuid and the request envelope, fragment list by fragment list *)

\* the largest number of methods passed to NewRPCMessage
MaxFragments == 2

MethodDiscard == "<discard-changes/>"

Fragments == {MethodLock("candidate"), MethodGetConfig("running"), MethodDiscard}

FragmentLists == UNION {[1..n -> Fragments] : n \in 0..MaxFragments}

HexDigits == <<"0", "1", "2", "3", "4", "5", "6", "7",
               "8", "9", "a", "b", "c", "d", "e", "f">>

\* fmt's %x of a byte slice: two lower-case digits for a byte
RECURSIVE Hex(_)
Hex(bytes) ==
    IF bytes = <<>>
    THEN ""
    ELSE HexDigits[(Head(bytes) \div 16) + 1] \o HexDigits[(Head(bytes) % 16) + 1]
         \o Hex(Tail(bytes))

\* uuid after io.ReadFull has left b in the buffer: b[6] and b[8] (here the
\* 7th and 9th byte) get the version and variant bits
uuid(b) ==
    LET v == [b EXCEPT ![7] = (@ % 16) + 64, ![9] = (@ % 64) + 128]
    IN Hex(SubSeq(v, 1, 4)) \o "-" \o Hex(SubSeq(v, 5, 6)) \o "-"
       \o Hex(SubSeq(v, 7, 8)) \o "-" \o Hex(SubSeq(v, 9, 10)) \o "-"
       \o Hex(SubSeq(v, 11, 16))

\* make([]byte, 16)
ZeroBuffer == [i \in 1..16 |-> 0]

\* buffers a full read of rand.Reader leaves
RandomBuffers ==
    {<<107, 167, 184, 16, 157, 173, 241, 209, 64, 180, 0, 192, 79, 212, 48, 200>>,
     <<107, 167, 184, 17, 157, 173, 17, 209, 192, 180, 0, 192, 79, 212, 48, 200>>}

\* buffers a failed read leaves: nothing read, or the first bytes only
ShortReads ==
    {ZeroBuffer,
     [i \in 1..16 |-> IF i <= 8 THEN 107 ELSE 0]}

\* NewRPCMessage(methods), msgID() reading 16 random bytes
NewRPCMessageRandom(methods) ==
    /\ pc \in {"idle", "done"}
    /\ \E b \in RandomBuffers :
          msg' = Some([MessageID |-> uuid(b), Methods |-> methods])
    /\ pc' = "idle"
    /\ request' = Nil
    /\ rawXML' = Nil
    /\ ret' = NoReturn
    /\ trace' = <<>>
    /\ UNCHANGED session

\* NewRPCMessage(methods), io.ReadFull returning an error, which uuid drops
NewRPCMessageNoEntropy(methods) ==
    /\ pc \in {"idle", "done"}
    /\ \E b \in ShortReads :
          msg' = Some([MessageID |-> uuid(b), Methods |-> methods])
    /\ pc' = "idle"
    /\ request' = Nil
    /\ rawXML' = Nil
    /\ ret' = NoReturn
    /\ trace' = <<>>
    /\ UNCHANGED session

\* a rand.Reader that ends the process itself when it cannot read (the Go
\* runtime decides which of the two a build does)
NewRPCMessageFatal ==
    /\ pc \in {"idle", "done"}
    /\ pc' = "panic"
    /\ UNCHANGED <<msg, session, request, rawXML, ret, trace>>

EnvelopeNext ==
    \/ ExecOnly /\ \E methods \in FragmentLists : NewRPCMessageRandom(methods)
    \/ ExecOnly /\ \E methods \in FragmentLists : NewRPCMessageNoEntropy(methods)
    \/ ExecOnly /\ NewRPCMessageFatal
    \/ ExecOnly /\ ExecSendFails
    \/ ExecOnly /\ ExecSend

SpecEnvelope == Init /\ [][EnvelopeNext]_vars

-----------------------------------------------------------------------------
(* Goroutines calling NewRPCMessage and Exec on one session *)

\* goroutines sharing the session
NumProcs == 2

\* RPCMessage values allocated
MaxMessages == 2

Procs == 1..NumProcs

\* Transport.Send on the session's ordered request/reply stream: the
\* request joins the requests the device has not answered yet
Send(stream, req) == Append(stream, req)

\* Transport.Receive: the next reply on the stream answers the oldest
\* request still unanswered
Receive(stream) == Head(stream)

\* the stream after bytes have been taken from it by Receive
AfterReceive(stream) == Tail(stream)

\* the stream after a Receive by goroutine p failed: the reply to p's oldest
\* unanswered request is delivered to nobody
Dropped(stream, p) ==
    LET own == {i \in 1..Len(stream) : stream[i].by = p}
    IN IF own = {}
       THEN stream
       ELSE RemoveAt(stream, CHOOSE i \in own : \A j \in own : i <= j)

\* a goroutine that is not inside Exec and has not called it yet
Outside == [pc |-> "idle", m |-> 0, got |-> Nil, err |-> Nil]

ConcInit ==
    /\ msg = Nil
    /\ session = [ErrOnWarning |-> FALSE]
    /\ pc = "idle"
    /\ request = Nil
    /\ rawXML = Nil
    /\ ret = NoReturn
    /\ trace = <<>>
    /\ cred = Nil /\ config = Nil
    /\ heap = <<>>
    /\ threads = [p \in Procs |-> Outside]
    /\ wire = <<>>

\* identifiers of the messages allocated so far
HeapIDs == {heap[i].MessageID : i \in 1..Len(heap)}

\* NewRPCMessage(methods) in a goroutine: msgID() gives an identifier no
\* other message has; the *RPCMessage is visible to every goroutine
GoNewRPCMessage(p, methods) ==
    /\ threads[p].pc = "idle"
    /\ Len(heap) < MaxMessages
    /\ \E id \in MsgIDs \ HeapIDs :
          heap' = Append(heap, [MessageID |-> id, Methods |-> methods])
    /\ UNCHANGED <<threads, wire>>

\* m.Exec(s) in goroutine p up to s.Send returning nil; nothing in Exec
\* waits for another goroutine (the stream is explored up to NumProcs
\* unanswered requests)
GoExecSend(p, m) ==
    /\ threads[p].pc = "idle"
    /\ Len(wire) < NumProcs
    /\ wire' = Send(wire, [by |-> p, request |-> Request(heap[m])])
    /\ threads' = [threads EXCEPT ![p] = [pc |-> "sent", m |-> m, got |-> Nil, err |-> Nil]]
    /\ UNCHANGED heap

\* m.Exec(s) in goroutine p with s.Send returning an error
GoExecSendFails(p, m) ==
    /\ threads[p].pc = "idle"
    /\ threads' = [threads EXCEPT ![p] = [pc |-> "idle", m |-> m, got |-> Nil,
                                          err |-> Some(ErrSend)]]
    /\ UNCHANGED <<heap, wire>>

\* s.Receive returning bytes to goroutine p, and Exec returning
GoExecReceive(p) ==
    /\ threads[p].pc = "sent"
    /\ wire # <<>>
    /\ threads' = [threads EXCEPT ![p].pc = "idle", ![p].got = Some(Receive(wire))]
    /\ wire' = AfterReceive(wire)
    /\ UNCHANGED heap

\* s.Receive returning an error to goroutine p, and Exec returning it
GoExecReceiveFails(p) ==
    /\ threads[p].pc = "sent"
    /\ threads' = [threads EXCEPT ![p].pc = "idle", ![p].err = Some(ErrReceive)]
    /\ wire' = Dropped(wire, p)
    /\ UNCHANGED heap

\* a step of a goroutine leaves the single-caller variables alone
ConcOnly == UNCHANGED <<execVars, credVars>>

ConcNext ==
    \/ ConcOnly /\ \E p \in Procs, methods \in MethodLists : GoNewRPCMessage(p, methods)
    \/ ConcOnly /\ \E p \in Procs, m \in 1..Len(heap) : GoExecSend(p, m)
    \/ ConcOnly /\ \E p \in Procs, m \in 1..Len(heap) : GoExecSendFails(p, m)
    \/ ConcOnly /\ \E p \in Procs : GoExecReceive(p)
    \/ ConcOnly /\ \E p \in Procs : GoExecReceiveFails(p)

SpecConc == ConcInit /\ [][ConcNext]_vars

-----------------------------------------------------------------------------
(* Credentials and the ssh configuration built from them *)

Users == {"admin", "netconf", "oper", "root"}

Passwords == {"", "admin", "secret", "\n"}

\* private key material: what the PEM text is (none when the file cannot be
\* read) and the passphrase it is protected with ("" when it is not)
KeyMaterial ==
    {[pem |-> "rsa", passphrase |-> ""],
     [pem |-> "rsa", passphrase |-> "secret"],
     [pem |-> "rsa", passphrase |-> "\n"],
     [pem |-> "malformed", passphrase |-> ""],
     [pem |-> "none", passphrase |-> ""]}

\* PlainPassword{User, Password}
PlainPassword(user, password) ==
    [type |-> "PlainPassword", User |-> user, Password |-> password]

\* PublicKey{User, File}
PublicKeyFile(user, file) == [type |-> "PublicKey.File", User |-> user, File |-> file]

\* PublicKey{User, Key}
PublicKeyKey(user, key) == [type |-> "PublicKey.Key", User |-> user, Key |-> key]

Credentials ==
    {PlainPassword(u, p) : u \in Users, p \in Passwords}
    \cup {PublicKeyFile(u, k) : u \in Users, k \in KeyMaterial}
    \cup {PublicKeyKey(u, k) : u \in Users, k \in KeyMaterial}

\* SSHConfigPassword(user, pass): a configuration, always
SSHConfigPassword(user, pass) ==
    [cfg |-> Some([User |-> user, Auth |-> <<"password", pass>>]), err |-> Nil]

\* SSHConfigPubKeyFile(user, file, passphrase): a configuration, or the
\* error of reading, parsing or decrypting the key
SSHConfigPubKeyFile(user, key, passphrase) ==
    IF key.pem = "none"
    THEN [cfg |-> Nil, err |-> Some(AsError("read", Nil))]
    ELSE IF key.pem = "malformed"
    THEN [cfg |-> Nil, err |-> Some(AsError("parse", Nil))]
    ELSE IF key.passphrase # "" /\ key.passphrase # passphrase
    THEN [cfg |-> Nil, err |-> Some(AsError("passphrase", Nil))]
    ELSE [cfg |-> Some([User |-> user, Auth |-> <<"publickey", key.pem>>]), err |-> Nil]

\* what a call of Config ended in: the configuration returned, or the
\* value it panicked with; the signature has no error result
ConfigReturned(cfg) == [cfg |-> cfg, err |-> Nil, panic |-> Nil]

ConfigPanicked(err) == [cfg |-> Nil, err |-> Nil, panic |-> err]

\* the body of both PublicKey.Config: panic(err) when err != nil
ConfigOrPanic(r) == IF r.err # Nil THEN ConfigPanicked(r.err) ELSE ConfigReturned(r.cfg)

\* the caller makes a credential (a panic has ended the process)
NewCredential(c) ==
    /\ IF config = Nil THEN TRUE ELSE config[1].panic = Nil
    /\ cred' = Some(c)
    /\ config' = Nil

\* PlainPassword.Config
PlainPasswordConfig ==
    /\ cred # Nil /\ config = Nil
    /\ cred[1].type = "PlainPassword"
    /\ config' = Some(ConfigReturned(SSHConfigPassword(cred[1].User, cred[1].Password).cfg))
    /\ UNCHANGED cred

\* PublicKey{User, File}.Config
PublicKeyFileConfig ==
    /\ cred # Nil /\ config = Nil
    /\ cred[1].type = "PublicKey.File"
    /\ config' = Some(ConfigOrPanic(SSHConfigPubKeyFile(cred[1].User, cred[1].File, "")))
    /\ UNCHANGED cred

\* PublicKey{User, Key}.Config
PublicKeyKeyConfig ==
    /\ cred # Nil /\ config = Nil
    /\ cred[1].type = "PublicKey.Key"
    /\ config' = Some(ConfigOrPanic(SSHConfigPubKeyFile(cred[1].User, cred[1].Key, "\n")))
    /\ UNCHANGED cred

\* building a configuration touches neither a message nor the session
CredOnly == UNCHANGED <<execVars, concVars>>

CredNext ==
    \/ CredOnly /\ \E c \in Credentials : NewCredential(c)
    \/ CredOnly /\ PlainPasswordConfig
    \/ CredOnly /\ PublicKeyFileConfig
    \/ CredOnly /\ PublicKeyKeyConfig

SpecCredential == Init /\ [][CredNext]_vars

-----------------------------------------------------------------------------
(* What the properties below talk about *)

Strict == session.ErrOnWarning

\* Transport.Receive has handed bytes to the invocation
Received == rawXML # Nil

\* the received bytes are well-formed: etree reads them
WellFormed == Received /\ ReadFromBytes(rawXML[1]).err = Nil

\* the document as received, before newRPCReply changes it
ReceivedDoc == ReadFromBytes(rawXML[1]).doc

\* what newRPCReply does with the received bytes
Decoded == newRPCReply(rawXML[1], Strict, msg[1].MessageID)

\* the decoder returned a reply document (alone or with an error)
DecoderReplied == Received /\ Decoded.reply # Nil

\* the elements below a list of nodes, in document order (depth first)
RECURSIVE InDocumentOrder(_)
InDocumentOrder(nodes) ==
    IF nodes = <<>>
    THEN <<>>
    ELSE (IF IsElement(Head(nodes))
          THEN <<Head(nodes)>> \o InDocumentOrder(Head(nodes).child)
          ELSE <<>>) \o InDocumentOrder(Tail(nodes))

HasTagInDocumentOrder(doc, tag) ==
    LET els == InDocumentOrder(doc.child)
    IN \E i \in 1..Len(els) : els[i].tag = tag

\* the reported errors of a document: one per rpc-error element, in
\* document order
ReportedErrors(doc) ==
    LET found == SelectSeq(InDocumentOrder(doc.child), LAMBDA n : n.tag = "rpc-error")
    IN [i \in 1..Len(found) |-> DecodeError(found[i])]

\* the received rpc-reply wrapper (the document's first rpc-reply element)
Wrapper == SelectChildrenByTag(ReceivedDoc, "rpc-reply")[1]

HasWrapper == WellFormed /\ SelectChildrenByTag(ReceivedDoc, "rpc-reply") # <<>>

\* the first entry of a list of errors that fails the call, as the error
\* value the decoder returns for it; nil when no entry qualifies
FirstFailing(errors, strict) ==
    IF \E i \in 1..Len(errors) : errors[i].Severity = "error" \/ strict
    THEN LET i == CHOOSE k \in 1..Len(errors) :
                     /\ errors[k].Severity = "error" \/ strict
                     /\ \A j \in 1..(k - 1) : ~(errors[j].Severity = "error" \/ strict)
         IN Some(AsError("RPCError", Some(errors[i])))
    ELSE Nil

-----------------------------------------------------------------------------
(* C1 *)

\* C1: when Send and Receive succeed, the reply parses and has a payload
\* child, and classification selects a failing error, Exec returns the
\* decoded reply (non-nil) together with that error.
C1_ExecReturnsReplyWithError ==
    (pc = "done" /\ Received) =>
        LET d == Decoded
        IN (d.reply # Nil /\ d.err # Nil) =>
               /\ ret.reply # Nil
               /\ ret.reply = d.reply
               /\ ret.err = d.err

\* an invocation that ended with a classification failure
C1_Case == pc = "done" /\ DecoderReplied /\ Decoded.err # Nil /\ ret.err = Decoded.err

-----------------------------------------------------------------------------
(* C2 *)

\* the received document is an rpc-reply wrapper without child elements
Rootless ==
    /\ HasWrapper
    /\ ChildElements(ReceivedDoc) = <<Wrapper>>
    /\ ChildElements(Wrapper) = <<>>

\* C2: decoding a well-formed document that is only the rpc-reply wrapper,
\* without child elements, ends in a returned error with no reply; the call
\* neither succeeds nor aborts.
C2_RootlessReplyIsReturnedError ==
    (Received /\ Rootless) =>
        /\ pc = "done"
        /\ Decoded.panic = ""
        /\ ret.reply = Nil
        /\ ret.err # Nil

-----------------------------------------------------------------------------
(* C3 *)

\* C3: for a received reply with several rpc-error entries, the failing
\* cause the decoder returns is the first entry in document order whose
\* severity is "error" (of any severity when strictOnWarning is set), and
\* nil when no entry qualifies.
C3_FirstQualifyingInDocumentOrder ==
    Received =>
        LET d == Decoded
            reported == ReportedErrors(ReceivedDoc)
        IN (d.reply # Nil /\ Len(reported) >= 2) =>
               d.err = FirstFailing(reported, Strict)

-----------------------------------------------------------------------------
(* C4 *)

\* C4: the decoder reports a classification failure iff the reply's error
\* list has an entry of severity "error", or strictOnWarning is set and the
\* list is not empty; a reply with the single entry of severity "warning"
\* yields no failure without strictOnWarning and that entry with it.
C4_ClassificationIff ==
    Received =>
        LET d == Decoded
            errors == d.reply[1].Errors
        IN d.reply # Nil =>
               /\ (d.err # Nil) <=>
                      \/ \E i \in 1..Len(errors) : errors[i].Severity = "error"
                      \/ Strict /\ errors # <<>>
               /\ (Len(errors) = 1 /\ errors[1].Severity = "warning") =>
                      /\ ~Strict => d.err = Nil
                      /\ Strict => d.err = Some(AsError("RPCError", Some(errors[1])))

\* a single warning fails the call under strictOnWarning
C4_Witness ==
    /\ pc = "done" /\ DecoderReplied /\ Strict
    /\ Len(Decoded.reply[1].Errors) = 1
    /\ Decoded.reply[1].Errors[1].Severity = "warning"
    /\ ret.err = Some(AsError("RPCError", Some(Decoded.reply[1].Errors[1])))

-----------------------------------------------------------------------------
(* C5 *)

\* C5: every reply document the decoder returns, alone or together with a
\* classification failure, carries the identifier passed to the decoder; a
\* reply Exec returns carries the message-id of the envelope that was sent,
\* which is the MessageID of the RPCMessage.
C5_ReplyCarriesRequestID ==
    /\ Received =>
           LET d == Decoded
           IN d.reply # Nil => d.reply[1].MessageID = msg[1].MessageID
    /\ (pc = "done" /\ ret.reply # Nil) =>
           /\ ret.reply[1].MessageID = request[1].rpc.messageID
           /\ ret.reply[1].MessageID = msg[1].MessageID

\* a reply returned together with a classification failure, whose own
\* message-id attribute is not the request's
C5_Witness ==
    /\ pc = "done" /\ DecoderReplied
    /\ Decoded.err # Nil
    /\ Wrapper.val # msg[1].MessageID
    /\ Decoded.reply[1].MessageID = request[1].rpc.messageID

-----------------------------------------------------------------------------
(* C6 *)

\* C6: within one invocation Send is called at most once, Receive at most
\* once and only after Send returned nil; after a failed Send the invocation
\* has returned that failure and calls nothing more.
C6_TransportOrder ==
    /\ Len(trace) <= 2
    /\ trace # <<>> => trace[1].op = "Send"
    /\ Len(trace) = 2 => trace[2].op = "Receive" /\ trace[1].ok
    /\ (trace # <<>> /\ ~trace[1].ok) =>
           /\ pc = "done"
           /\ ret = [reply |-> Nil, err |-> Some(ErrSend)]

\* an invocation that returned after a failed Send
C6_Witness ==
    /\ pc = "done"
    /\ trace = <<[op |-> "Send", ok |-> FALSE]>>
    /\ ret.err = Some(ErrSend)

-----------------------------------------------------------------------------
(* C7 *)

\* C7: when Send fails, Receive fails, or the received bytes are not
\* well-formed, Exec returns the error of the failing step and a nil reply.
C7_FailingStepErrorNoReply ==
    pc = "done" =>
        /\ ~trace[1].ok => ret = [reply |-> Nil, err |-> Some(ErrSend)]
        /\ (Len(trace) = 2 /\ ~trace[2].ok) =>
               ret = [reply |-> Nil, err |-> Some(ErrReceive)]
        /\ Received =>
               LET parsed == ReadFromBytes(rawXML[1])
               IN parsed.err # Nil => ret = [reply |-> Nil, err |-> parsed.err]

\* an invocation that received bytes the parser rejects
C7_Witness ==
    /\ pc = "done" /\ Received /\ ~WellFormed
    /\ ret = [reply |-> Nil, err |-> Some(ErrSyntax)]

-----------------------------------------------------------------------------
(* C8 *)

\* C8: the error list of a decoded reply has exactly one entry for every
\* rpc-error element of the received document, in document order.
C8_ErrorsAreAllReportedErrors ==
    Received =>
        LET d == Decoded
        IN d.reply # Nil => d.reply[1].Errors = ReportedErrors(ReceivedDoc)

-----------------------------------------------------------------------------
(* C9 *)

-----------------------------------------------------------------------------
(* C10 *)

\* the document is the wrapper around one data element, without ok and
\* rpc-error elements
OnlyDataPayload(doc) ==
    LET top == ChildElements(doc)
    IN /\ Len(top) = 1
       /\ top[1].tag = "rpc-reply"
       /\ Len(ChildElements(top[1])) = 1
       /\ ChildElements(top[1])[1].tag = "data"
       /\ ~HasTagInDocumentOrder(doc, "ok")
       /\ ~HasTagInDocumentOrder(doc, "rpc-error")

\* C10: Ok of a returned reply is true iff an ok element occurs anywhere in
\* the document as received (before re-rooting); a reply with only a data
\* payload has Ok false and no errors.
C10_OkIffOkElementAnywhere ==
    Received =>
        LET d == Decoded
            doc == ReceivedDoc
        IN d.reply # Nil =>
               /\ d.reply[1].Ok <=> HasTagInDocumentOrder(doc, "ok")
               /\ OnlyDataPayload(doc) => ~d.reply[1].Ok /\ d.reply[1].Errors = <<>>
               /\ (pc = "done" /\ ret.reply # Nil) => ret.reply[1].Ok = d.reply[1].Ok

\* a returned reply with Ok set by an ok element that re-rooting dropped
C10_Witness ==
    /\ pc = "done" /\ ret.reply # Nil
    /\ ret.reply[1].Ok
    /\ ~HasTagInDocumentOrder(ret.reply[1].Data, "ok")

-----------------------------------------------------------------------------
(* C11 *)

\* the fragments f1..fn one after the other, built up from the left
RECURSIVE JoinUpTo(_, _)
JoinUpTo(fragments, n) ==
    IF n = 0 THEN "" ELSE JoinUpTo(fragments, n - 1) \o fragments[n]

\* C11: the envelope built for fragments f1..fn is the document header and
\* one rpc element with the message's identifier as message-id, the base-1.0
\* namespace and the fragments' text in the caller's order, each once and
\* verbatim; building it does not change the message.
C11_EnvelopeOfFragments ==
    /\ [](request # Nil =>
            request[1] =
                [header |-> "<?xml version=\"1.0\" encoding=\"UTF-8\"?>\n",
                 rpc |-> [name |-> "rpc",
                          messageID |-> msg[1].MessageID,
                          xmlns |-> "urn:ietf:params:xml:ns:netconf:base:1.0",
                          innerxml |-> JoinUpTo(msg[1].Methods, Len(msg[1].Methods))]])
    /\ [][(request' # Nil /\ request' # request) => msg' = msg]_vars

\* an envelope of two different fragments has been handed to Send
C11_Witness ==
    /\ pc = "sent" /\ request # Nil
    /\ Len(msg[1].Methods) = 2
    /\ msg[1].Methods[1] # msg[1].Methods[2]
    /\ request[1].rpc.innerxml = msg[1].Methods[1] \o msg[1].Methods[2]

-----------------------------------------------------------------------------
(* C15 *)

\* C15: when the randomness source does not supply 16 bytes no identifier
\* is handed out: no message carries, and no request is built or sent with,
\* an identifier made from a failed read.
C15_NoIdentifierWithoutRandomness ==
    \A b \in ShortReads :
        /\ msg # Nil => msg[1].MessageID # uuid(b)
        /\ request # Nil => request[1].rpc.messageID # uuid(b)

-----------------------------------------------------------------------------
(* C17 *)

\* the entry expected for an rpc-error carrying the sub-elements in present
ExpectedEntry(present, severity) ==
    LET text(i) == IF i \in present THEN SubFieldText(i, severity) ELSE ""
    IN [Type |-> text(1), Tag |-> text(2), Severity |-> text(3), Path |-> text(4),
        Message |-> text(5)]

\* C17: for every subset of the five sub-elements of an rpc-error the
\* decoder returns a reply with one entry holding the text of the present
\* sub-elements and the empty string for the missing ones, without
\* panicking; an entry without severity fails the call only when the
\* session is strict on warnings.
C17_PartialErrorDecodes ==
    (Received /\ rawXML[1] \in PartialErrorReplies) =>
        \A present \in SUBSET (1..5) : \A severity \in Severities :
            rawXML[1] = El("rpc-reply", EchoedID, PartialError(present, severity)) =>
                LET d == Decoded
                    entry == ExpectedEntry(present, severity)
                IN /\ pc = "done"
                   /\ d.panic = ""
                   /\ d.reply # Nil
                   /\ d.reply[1].Errors = <<entry>>
                   /\ (d.err # Nil) <=> (Strict \/ entry.Severity = "error")
                   /\ d.err # Nil => d.err[1] = AsError("RPCError", Some(entry))

\* a lenient session has been returned the reply for an rpc-error that has
\* a tag and a path and nothing else
C17_Witness ==
    /\ pc = "done" /\ ~Strict /\ Received
    /\ rawXML[1] = El("rpc-reply", EchoedID, PartialError({2, 4}, "error"))
    /\ ret.err = Nil /\ ret.reply # Nil
    /\ ret.reply[1].Errors = <<RPCError("", "lock-denied", "", "/rpc/lock", "")>>

-----------------------------------------------------------------------------
(* C18 *)

\* the bytes with id as the message-id attribute of every rpc-reply tag
WithMessageID(bytes, id) ==
    [i \in 1..Len(bytes) |->
        IF bytes[i].k = "start" /\ bytes[i].tag = "rpc-reply"
        THEN [bytes[i] EXCEPT !.val = id]
        ELSE bytes[i]]

\* C18: what the decoder returns does not depend on the message-id
\* attribute of the received rpc-reply: the same document with another
\* message-id decodes to the same result, and a returned reply is labelled
\* with the request's identifier whatever the attribute says; a reply whose
\* attribute is not the request's identifier is accepted.
C18_ReplyAttributeIgnored ==
    Received =>
        LET d == Decoded
        IN /\ \A id \in MsgIDs :
                 WithMessageID(rawXML[1], id) # rawXML[1] =>
                     newRPCReply(WithMessageID(rawXML[1], id), Strict, msg[1].MessageID) = d
           /\ d.reply # Nil => d.reply[1].MessageID = msg[1].MessageID
           /\ (d.panic = "" /\ pc = "done") => ret = ExecReturn(d)

\* Exec has returned, without an error, a reply whose rpc-reply carried the
\* identifier of another request
C18_Witness ==
    /\ pc = "done" /\ HasWrapper
    /\ Wrapper.val \in MsgIDs \ {msg[1].MessageID}
    /\ ret.err = Nil /\ ret.reply # Nil
    /\ ret.reply[1].MessageID = msg[1].MessageID
    /\ WithMessageID(rawXML[1], msg[1].MessageID) # rawXML[1]

-----------------------------------------------------------------------------
(* C19 *)

\* C19: a well-formed received document whose top-level element is not
\* rpc-reply makes Exec return an error and no reply; every invocation
\* whose Send and Receive returned ends by returning (reply, nil) or
\* (nil, error), never by aborting the caller.
C19_ForeignRootIsReturnedError ==
    /\ (WellFormed /\ ~HasWrapper) =>
           pc = "done" /\ ret.reply = Nil /\ ret.err # Nil
    /\ (Len(trace) = 2 /\ trace[1].ok /\ trace[2].ok) =>
           /\ pc = "done"
           /\ \/ ret.reply # Nil /\ ret.err = Nil
              \/ ret.reply = Nil /\ ret.err # Nil

\* Exec has received a hello document and panicked
C19_Case ==
    /\ pc = "panic" /\ Received
    /\ rawXML[1] = El("hello", "", El("ok", "", <<>>))
    /\ newRPCReply(rawXML[1], Strict, msg[1].MessageID) = Panicked("nil pointer dereference")

-----------------------------------------------------------------------------
(* C16 *)

\* what an invocation returns, from its inputs alone: the message, the
\* session's flag, what Send and Receive returned
Outcome(m, strict, calls, bytes) ==
    IF ~calls[1].ok
    THEN [reply |-> Nil, err |-> Some(ErrSend)]
    ELSE IF ~calls[2].ok
    THEN [reply |-> Nil, err |-> Some(ErrReceive)]
    ELSE ExecReturn(newRPCReply(bytes[1], strict, m.MessageID))

\* C16: a step of Exec (one that calls the transport) leaves the message
\* and the session's strictness flag as they were, and what a finished
\* invocation returned is a function of that invocation's inputs only,
\* however many invocations came before it.
C16_ExecLeavesInputsAlone ==
    /\ [][(trace' # trace /\ trace' # <<>>) => (msg' = msg /\ session' = session)]_vars
    /\ [](pc = "done" => ret = Outcome(msg[1], session.ErrOnWarning, trace, rawXML))
    /\ [][(pc # "sent" /\ pc' = "sent") => request' = Some(Request(msg[1]))]_vars

\* an invocation on a message of two methods has called Send and Receive
\* and returned a reply, message and request still agreeing
C16_Witness ==
    /\ pc = "done" /\ Len(trace) = 2 /\ trace[2].ok
    /\ ret.reply # Nil
    /\ ret = Outcome(msg[1], Strict, trace, rawXML)
    /\ request = Some(Request(msg[1]))
    /\ Len(msg[1].Methods) = 2

-----------------------------------------------------------------------------
(* C12 *)

\* goroutines that have sent a request and not returned from Receive
InFlight == {p \in Procs : threads[p].pc = "sent"}

\* C12: at no time is more than one invocation in flight on the session,
\* and the reply an invocation receives answers the request it sent.
C12_OneInvocationInFlight ==
    /\ Cardinality(InFlight) <= 1
    /\ \A p \in Procs :
          threads[p].got # Nil =>
              /\ threads[p].got[1].by = p
              /\ threads[p].got[1].request = Request(heap[threads[p].m])

\* a goroutine has been handed the reply to the request of another one,
\* which is still waiting
C12_Case ==
    \E p, q \in Procs :
        /\ p # q
        /\ threads[p].got # Nil /\ threads[p].got[1].by = q
        /\ threads[q].pc = "sent"

-----------------------------------------------------------------------------
(* C13 *)

\* C13: any two requests in flight at the same time carry different
\* message identifiers.
C13_InFlightIdentifiersDiffer ==
    \A i, j \in 1..Len(wire) :
        i # j => wire[i].request.rpc.messageID # wire[j].request.rpc.messageID

\* two goroutines have sent the same RPCMessage and neither has its reply
C13_Case ==
    \E p, q \in Procs :
        /\ p # q
        /\ threads[p].pc = "sent" /\ threads[q].pc = "sent"
        /\ threads[p].m = threads[q].m
        /\ Len(wire) = 2
        /\ wire[1].request = wire[2].request

-----------------------------------------------------------------------------
(* C14 *)

\* what SSHConfigPubKeyFile gives for a key-based credential
KeyConfig(c) ==
    IF c.type = "PublicKey.Key"
    THEN SSHConfigPubKeyFile(c.User, c.Key, "\n")
    ELSE SSHConfigPubKeyFile(c.User, c.File, "")

\* C14: building the configuration never panics; for a key-based
\* credential whose key cannot be read, parsed or decrypted the caller is
\* returned an error, and a password credential always yields a
\* configuration.
C14_BadKeyIsReturnedError ==
    config # Nil =>
        /\ config[1].panic = Nil
        /\ cred[1].type = "PlainPassword" => config[1].cfg # Nil
        /\ cred[1].type # "PlainPassword" =>
              LET r == KeyConfig(cred[1])
              IN /\ config[1].err = r.err
                 /\ config[1].cfg = r.cfg

\* Config of a key-based credential with malformed key material has
\* panicked
C14_Case ==
    /\ cred # Nil /\ config # Nil
    /\ cred[1].type = "PublicKey.File"
    /\ cred[1].File.pem = "malformed"
    /\ config[1].panic = Some(AsError("parse", Nil))

====
